---- MODULE Spec2Model ----
(***************************************************************************)
(* The emoji disk cache of userplugins/messageEmojiCache (native.ts) and   *)
(* its message handler (index.ts).                                         *)
(*                                                                         *)
(* Strings are sequences of one-character strings, so that sanitizeName,   *)
(* path.join and the bootstrap's filename pattern are computed character   *)
(* by character.  A path is the sequence of its segments below the root    *)
(* directory (the empty string, which names no file, is the empty          *)
(* sequence); the filesystem is the set of existing directories and the    *)
(* map from file paths to contents.  Every invocation of an exported       *)
(* async function of native.ts that awaits is a                            *)
(* task; a task gives up control only at an await, so each action runs a   *)
(* handler from one await to the next.                                     *)
(*                                                                         *)
(* A failing mkdirSync or writeFileSync is modelled as leaving the disk    *)
(* as it was; nothing deletes a file or a directory.                       *)
(***************************************************************************)
EXTENDS Integers, Sequences, FiniteSets, Bags, TLC

(***************************************************************************)
(* Bounds                                                                  *)
(***************************************************************************)
\* References submitted over one run, summed over all cacheEmoji and
\* cacheEmojis invocations (an invocation costs at least one).
MaxRefs == 2

\* Length of the strings given to sanitizeName when it is studied alone.
MaxNameLen == 3

\* Pieces a message content is put together from.
MaxPieces == 3

(***************************************************************************)
(* Characters and strings                                                  *)
(***************************************************************************)
Digits == {"0", "1", "2", "3", "4", "5", "6", "7", "8", "9"}

\* native.ts:18  /[<>:"/\\|?*\x00-\x1f]/g
UNSAFE_FILENAME_CHARS ==
    {"<", ">", ":", "\"", "/", "\\", "|", "?", "*", "\t", "\n", "\r", "\f"}

\* The white space String.prototype.trim removes.
WhiteSpace == {" ", "\t", "\n", "\r", "\f"}

\* name.replace(UNSAFE_FILENAME_CHARS, "_")
ReplaceUnsafe(s) ==
    IF s = <<>> THEN <<>>
    ELSE [i \in 1..Len(s) |-> IF s[i] \in UNSAFE_FILENAME_CHARS THEN "_" ELSE s[i]]

\* .replace(/\.+$/, "")
RECURSIVE StripTrailingPeriods(_)
StripTrailingPeriods(s) ==
    IF s # <<>> /\ s[Len(s)] = "."
    THEN StripTrailingPeriods(SubSeq(s, 1, Len(s) - 1))
    ELSE s

RECURSIVE TrimStart(_)
TrimStart(s) ==
    IF s # <<>> /\ Head(s) \in WhiteSpace THEN TrimStart(Tail(s)) ELSE s

RECURSIVE TrimEnd(_)
TrimEnd(s) ==
    IF s # <<>> /\ s[Len(s)] \in WhiteSpace
    THEN TrimEnd(SubSeq(s, 1, Len(s) - 1))
    ELSE s

\* String.prototype.trim
Trim(s) == TrimEnd(TrimStart(s))

Unknown == <<"u", "n", "k", "n", "o", "w", "n">>

\* A sanitizer that also replaces white space by "_".
sanitizeNameSpaces(name) ==
    LET u == ReplaceUnsafe(name)
        w == IF u = <<>> THEN <<>>
             ELSE [i \in 1..Len(u) |-> IF u[i] \in WhiteSpace THEN "_" ELSE u[i]]
        r == Trim(StripTrailingPeriods(w))
    IN  IF r = <<>> THEN Unknown ELSE r

\* native.ts:24-29
sanitizeName(name) ==
    LET r == Trim(StripTrailingPeriods(ReplaceUnsafe(name)))
    IN  IF r = <<>> THEN Unknown ELSE r

(***************************************************************************)
(* Paths (POSIX path.join)                                                 *)
(***************************************************************************)
RECURSIVE Segments(_, _, _)
Segments(s, done, cur) ==
    IF s = <<>> THEN Append(done, cur)
    ELSE IF Head(s) = "/" THEN Segments(Tail(s), Append(done, cur), <<>>)
    ELSE Segments(Tail(s), done, Append(cur, Head(s)))

RECURSIVE Collapse(_, _)
Collapse(segs, out) ==
    IF segs = <<>> THEN out
    ELSE LET h == Head(segs)
         IN  IF h = <<>> \/ h = <<".">> THEN Collapse(Tail(segs), out)
             ELSE IF h = <<".", ".">>
                  THEN Collapse(Tail(segs),
                                IF out = <<>> THEN out
                                ELSE SubSeq(out, 1, Len(out) - 1))
                  ELSE Collapse(Tail(segs), Append(out, h))

\* The path an absolute path string names: split at "/", with "", "." and
\* ".." resolved.
PathOf(str) == Collapse(Segments(str, <<>>, <<>>), <<>>)

\* path.join(dir, name), for a path dir and a string name
join(dir, name) == Collapse(dir \o Segments(name, <<>>, <<>>), <<>>)

dirname(p) == IF p = <<>> THEN <<>> ELSE SubSeq(p, 1, Len(p) - 1)

basename(p) == IF p = <<>> THEN <<>> ELSE p[Len(p)]

\* A directory and every directory above it.
Ancestors(p) == {SubSeq(p, 1, k) : k \in 0..Len(p)}

(***************************************************************************)
(* The environment: DATA_DIR, $HOME, and the inputs                        *)
(***************************************************************************)
DATA_DIR == <<"/", "d", "a", "t", "a">>
HOME == <<"/", "h">>
Emotes == <<"e", "m", "o", "t", "e", "s">>

\* customDir: undefined (the setting left blank) or "~/c"
NoDir == <<>>
TildeDir == <<"~", "/", "c">>
CustomDirs == {NoDir, TildeDir}

\* native.ts:31-38, the directory the returned string names
resolveBaseDir(customDir) ==
    IF customDir # <<>> /\ Len(Trim(customDir)) > 0
    THEN PathOf(IF Head(customDir) = "~" THEN HOME \o Tail(customDir) ELSE customDir)
    ELSE join(PathOf(DATA_DIR), Emotes)

Id10 == <<"1", "0">>
Id123 == <<"1", "2", "3">>
Ids == {Id10, Id123}

Pog == <<"P", "o", "g">>
Foo == <<"F", "o", "o">>
\* An emoji id names one remote asset, which has one name.
NameOf(id) == IF id = Id10 THEN Pog ELSE Foo

MyServer == <<"M", "y", " ", "S", "e", "r", "v", "e", "r">>
DotDotSpace == <<".", ".", " ">>
GuildNames == {MyServer, DotDotSpace}

\* index.ts:21-25  ExtractedEmoji
Refs == {[id |-> i, name |-> NameOf(i), guildName |-> g] : i \in Ids, g \in GuildNames}
NoRef == [id |-> <<>>, name |-> <<>>, guildName |-> <<>>]

\* index.ts:63-72  emojiSize (128 is the default)
Sizes == {128}

RECURSIVE SeqsUpTo(_, _)
SeqsUpTo(S, n) ==
    IF n = 0 THEN {<<>>}
    ELSE LET shorter == SeqsUpTo(S, n - 1)
         IN  shorter \cup {Append(q, x) : q \in {r \in shorter : Len(r) = n - 1}, x \in S}

(***************************************************************************)
(* State                                                                   *)
(***************************************************************************)
VARIABLES
    cachedEmojiIds,   \* native.ts:21, the in-memory set of ids
    dirs,             \* the directories that exist
    files,            \* file path -> content
    tasks,            \* bag of the invocations of cacheEmoji/cacheEmojis in flight
    boot,             \* the initCache invocation that has returned, until its reply
    budget,           \* references that may still be submitted
    downloads,        \* id -> fetch+write completions in this process lifetime
    races,            \* id -> fetches begun while another fetch of the id was in flight
    sanitized,        \* the sanitizeName call under study: its argument and results
    handled           \* the message MESSAGE_CREATE handled last, and what it did

vars == <<cachedEmojiIds, dirs, files, tasks, boot, budget, downloads, races,
          sanitized, handled>>

(***************************************************************************)
(* Filesystem (original-fs)                                                *)
(***************************************************************************)
\* existsSync: true of a file and of a directory
existsSync(p) == p \in dirs \/ p \in DOMAIN files

\* mkdirSync(p, { recursive: true }) when it succeeds
mkdirRecursive(p) == dirs \cup Ancestors(p)

\* writeFileSync(p, data) when it succeeds: creates the file or replaces its content
writeFile(p, data) ==
    [q \in DOMAIN files \cup {p} |-> IF q = p THEN data ELSE files[q]]

\* readdirSync(p): the names of the entries of directory p
readdirSync(p) ==
    {basename(e) : e \in {q \in (dirs \cup DOMAIN files) : q # <<>> /\ dirname(q) = p}}

\* readdirSync(p, { withFileTypes: true }).filter(d => d.isDirectory()).map(d => d.name)
subdirectories(p) ==
    {basename(e) : e \in {q \in dirs : q # <<>> /\ dirname(q) = p}}

\* native.ts:47-50; the bytes fetchBuffer returns for a URL stand for the URL
buildEmojiUrl(emojiId, size) == [id |-> emojiId, size |-> size]

\* The content of a file that this program did not write.
Foreign == [id |-> <<>>, size |-> 0]

DotPng == <<".", "p", "n", "g">>

(***************************************************************************)
(* cacheEmoji, native.ts:56-96                                             *)
(***************************************************************************)
\* native.ts:68-70
GuildDir(guildName, customDir) ==
    join(resolveBaseDir(customDir), sanitizeName(guildName))

\* native.ts:72
FileName(emojiName, emojiId) ==
    sanitizeName(emojiName) \o <<"-">> \o emojiId \o DotPng

\* native.ts:68-73
FilePath(ref, customDir) ==
    join(GuildDir(ref.guildName, customDir), FileName(ref.name, ref.id))

\* GuildDir and FilePath of every input, computed once.
GuildDirOf == [g \in GuildNames |-> [d \in CustomDirs |-> GuildDir(g, d)]]
FilePathOf == [r \in Refs |-> [d \in CustomDirs |-> FilePath(r, d)]]

\* A cacheEmoji without its in-memory check.
AlreadyCachedNever(emojiId) == FALSE

\* native.ts:64
AlreadyCached(emojiId) == emojiId \in cachedEmojiIds

\* native.ts:65
SkippedResult == [cached |-> FALSE, path |-> <<>>]

\* A cacheEmoji that finds the file and does not record the id.
HealedIdsForgets(emojiId) == cachedEmojiIds

\* native.ts:77-78
HealedIds(emojiId) == cachedEmojiIds \cup {emojiId}
HealedResult(filePath) == [cached |-> FALSE, path |-> filePath]

\* A cacheEmoji that writes the file and does not record the id.
WrittenIdsForgets(emojiId) == cachedEmojiIds

\* native.ts:90-91
WrittenIds(emojiId) == cachedEmojiIds \cup {emojiId}
WrittenResult(filePath) == [cached |-> TRUE, path |-> filePath]

\* A catch block that drops the id of the failed attempt from the tracker.
FailedIdsEvicts(emojiId) == cachedEmojiIds \ {emojiId}

\* A catch block that records the id of the failed attempt.
FailedIdsPoisons(emojiId) == cachedEmojiIds \cup {emojiId}

\* native.ts:92-95, the catch block
FailedIds(emojiId) == cachedEmojiIds
FailedResult == [cached |-> FALSE, path |-> <<>>]

NoResult == [cached |-> FALSE, path |-> <<"?">>]

\* A task: one invocation of cacheEmoji (kind "one") or cacheEmojis (kind "batch").
\*   pc          "fetching" (at await fetchBuffer), "returned" (cacheEmoji has
\*               returned res, its caller not yet resumed), "done" (cacheEmojis
\*               has returned newlyCached)
\*   queue       the references of the batch not yet started
\*   cur         the reference of the current cacheEmoji call
\*   ops         the filesystem and network operations of the current call
\*   wasTracked, wasOnDisk   what held when the current call began
\*   writes, added   fetch+write completions of this invocation, and how many
\*               of them created a file that was not there
NewTask(kind, queue, customDir, size) ==
    [kind |-> kind, pc |-> "done", queue |-> queue, cur |-> NoRef,
     dir |-> customDir, size |-> size, newlyCached |-> 0, ops |-> <<>>,
     wasTracked |-> FALSE, wasOnDisk |-> FALSE, res |-> NoResult,
     writes |-> 0, added |-> 0]

Fetching(id) == {t \in BagToSet(tasks) : t.pc = "fetching" /\ t.cur.id = id}

\* native.ts:41-45: the operations of ensureDir(dirPath)
ensureDirOps(dirPath) ==
    IF existsSync(dirPath) THEN <<"existsSync">> ELSE <<"existsSync", "mkdirSync">>

\* native.ts:64-85: cacheEmoji from its call to its first await or return,
\* run by task t (others: the other tasks).  mkdirOk: whether mkdirSync succeeds.
cacheEmojiBegin(others, t, ref, mkdirOk) ==
    LET guildDir == GuildDirOf[ref.guildName][t.dir]
        filePath == FilePathOf[ref][t.dir]
        call == [t EXCEPT !.cur = ref, !.ops = <<>>, !.res = NoResult,
                          !.wasTracked = ref.id \in cachedEmojiIds,
                          !.wasOnDisk = existsSync(filePath)]
    IN  IF AlreadyCached(ref.id)
        THEN /\ tasks' = others (+) SetToBag({[call EXCEPT !.pc = "returned",
                                                           !.res = SkippedResult]})
             /\ UNCHANGED <<cachedEmojiIds, dirs, races>>
        ELSE IF existsSync(filePath)
        THEN /\ cachedEmojiIds' = HealedIds(ref.id)
             /\ tasks' = others (+) SetToBag({[call EXCEPT !.pc = "returned",
                                                           !.ops = <<"existsSync">>,
                                                           !.res = HealedResult(filePath)]})
             /\ UNCHANGED <<dirs, races>>
        ELSE IF ~existsSync(guildDir) /\ ~mkdirOk
        THEN /\ cachedEmojiIds' = FailedIds(ref.id)
             /\ tasks' = others (+) SetToBag({[call EXCEPT !.pc = "returned",
                                   !.ops = <<"existsSync">> \o ensureDirOps(guildDir),
                                   !.res = FailedResult]})
             /\ UNCHANGED <<dirs, races>>
        ELSE /\ dirs' = mkdirRecursive(guildDir)
             /\ tasks' = others (+) SetToBag({[call EXCEPT !.pc = "fetching",
                                   !.ops = <<"existsSync">> \o ensureDirOps(guildDir)
                                             \o <<"fetchBuffer">>]})
             /\ races' = [races EXCEPT ![ref.id] =
                              IF Fetching(ref.id) # {} THEN @ + 1 ELSE @]
             /\ UNCHANGED cachedEmojiIds

\* boot: the outcome of the initCache invocation that has just returned.
\*   st      "ok" (returned count, nothing failed), "partial" (returned count
\*           after a caught failure), "threw" (the promise rejected)
\*   order, failAt   the order in which readdirSync listed the collections and
\*           the position of the one whose listing threw (0: the listing of
\*           the base directory threw; Len(order) + 1: none)
NoBoot == [st |-> "none", base |-> <<>>, count |-> 0, order |-> <<>>, failAt |-> 0]

Without(t) == tasks (-) SetToBag({t})

\* Node runs the continuations of settled promises (microtasks) before the
\* next I/O callback or IPC invocation: a new invocation or a fetch completion
\* is handled only when no continuation is pending.
Quiet ==
    /\ boot.st = "none"
    /\ \A t \in BagToSet(tasks) : t.pc = "fetching"

Cost(emojis) == IF Len(emojis) = 0 THEN 1 ELSE Len(emojis)

\* The host invokes cacheEmoji (native.ts:56).
CallCacheEmoji(ref, customDir, size, mkdirOk) ==
    /\ Quiet
    /\ budget >= 1
    /\ budget' = budget - 1
    /\ cacheEmojiBegin(tasks, NewTask("one", <<>>, customDir, size), ref, mkdirOk)
    /\ UNCHANGED <<files, boot, downloads, sanitized, handled>>

\* The host invokes cacheEmojis (native.ts:102): newlyCached = 0 and the loop's
\* first cacheEmoji call, or the return of 0 for an empty batch.
CallCacheEmojis(emojis, customDir, size, mkdirOk) ==
    /\ Quiet
    /\ budget >= Cost(emojis)
    /\ budget' = budget - Cost(emojis)
    /\ IF emojis = <<>>
       THEN /\ tasks' = tasks (+) SetToBag({NewTask("batch", <<>>, customDir, size)})
            /\ UNCHANGED <<cachedEmojiIds, dirs, races>>
       ELSE cacheEmojiBegin(tasks, NewTask("batch", Tail(emojis), customDir, size),
                            Head(emojis), mkdirOk)
    /\ UNCHANGED <<files, boot, downloads, sanitized, handled>>

\* native.ts:85-91: fetchBuffer resolves; writeFileSync succeeds or throws.
FetchResolved(t, writeOk) ==
    /\ Quiet
    /\ t \in BagToSet(tasks)
    /\ t.pc = "fetching"
    /\ LET filePath == FilePathOf[t.cur][t.dir]
           buffer == buildEmojiUrl(t.cur.id, t.size)
       IN  IF writeOk
           THEN /\ files' = writeFile(filePath, buffer)
                /\ cachedEmojiIds' = WrittenIds(t.cur.id)
                /\ downloads' = [downloads EXCEPT ![t.cur.id] = @ + 1]
                /\ tasks' = Without(t) (+) SetToBag({[t EXCEPT
                        !.pc = "returned",
                        !.ops = @ \o <<"writeFileSync">>,
                        !.res = WrittenResult(filePath),
                        !.writes = @ + 1,
                        !.added = IF filePath \in DOMAIN files THEN @ ELSE @ + 1]})
           ELSE /\ cachedEmojiIds' = FailedIds(t.cur.id)
                /\ tasks' = Without(t) (+) SetToBag({[t EXCEPT
                        !.pc = "returned",
                        !.ops = @ \o <<"writeFileSync">>,
                        !.res = FailedResult]})
                /\ UNCHANGED <<files, downloads>>
    /\ UNCHANGED <<dirs, boot, budget, races, sanitized, handled>>

\* native.ts:85, 92-95: fetchBuffer rejects.
FetchRejected(t) ==
    /\ Quiet
    /\ t \in BagToSet(tasks)
    /\ t.pc = "fetching"
    /\ cachedEmojiIds' = FailedIds(t.cur.id)
    /\ tasks' = Without(t) (+) SetToBag({[t EXCEPT !.pc = "returned",
                                                 !.res = FailedResult]})
    /\ UNCHANGED <<dirs, files, boot, budget, downloads, races, sanitized, handled>>

\* A loop that counts every result that carries a path.
CountedPaths(newlyCached, result) ==
    IF result.path # <<>> THEN newlyCached + 1 ELSE newlyCached

\* native.ts:120-122
Counted(newlyCached, result) ==
    IF result.cached THEN newlyCached + 1 ELSE newlyCached

\* A loop that goes on only when no fetch of any invocation is in flight.
ResumeWhenAlone(t, mkdirOk) ==
    /\ t \in BagToSet(tasks)
    /\ t.kind = "batch"
    /\ t.pc = "returned"
    /\ \A o \in BagToSet(tasks) : o.pc # "fetching"
    /\ LET counted == [t EXCEPT !.newlyCached = Counted(@, t.res)]
       IN  IF t.queue = <<>>
           THEN /\ tasks' = Without(t) (+) SetToBag({[counted EXCEPT !.pc = "done"]})
                /\ UNCHANGED <<cachedEmojiIds, dirs, races>>
           ELSE cacheEmojiBegin(Without(t), [counted EXCEPT !.queue = Tail(@)],
                                Head(t.queue), mkdirOk)
    /\ UNCHANGED <<files, boot, budget, downloads, sanitized, handled>>

\* A loop that does not await cacheEmoji: it goes on to the next reference, or
\* returns, while the fetch of the current one is in flight.
ResumeNoAwait(t, mkdirOk) ==
    /\ t \in BagToSet(tasks)
    /\ t.kind = "batch"
    /\ t.pc \in {"fetching", "returned"}
    /\ LET counted == [t EXCEPT !.newlyCached = Counted(@, t.res)]
       IN  IF t.queue = <<>>
           THEN /\ tasks' = Without(t) (+) SetToBag({[counted EXCEPT !.pc = "done"]})
                /\ UNCHANGED <<cachedEmojiIds, dirs, races>>
           ELSE cacheEmojiBegin(Without(t), [counted EXCEPT !.queue = Tail(@)],
                                Head(t.queue), mkdirOk)
    /\ UNCHANGED <<files, boot, budget, downloads, sanitized, handled>>

\* native.ts:110-125: cacheEmojis resumes after await cacheEmoji(...): counts
\* the result, then calls cacheEmoji for the next reference or returns.
Resume(t, mkdirOk) ==
    /\ t \in BagToSet(tasks)
    /\ t.kind = "batch"
    /\ t.pc = "returned"
    /\ LET counted == [t EXCEPT !.newlyCached = Counted(@, t.res)]
       IN  IF t.queue = <<>>
           THEN /\ tasks' = Without(t) (+) SetToBag({[counted EXCEPT !.pc = "done"]})
                /\ UNCHANGED <<cachedEmojiIds, dirs, races>>
           ELSE cacheEmojiBegin(Without(t), [counted EXCEPT !.queue = Tail(@)],
                                Head(t.queue), mkdirOk)
    /\ UNCHANGED <<files, boot, budget, downloads, sanitized, handled>>

\* The invocation's result has been delivered to the renderer.
Reply(t) ==
    /\ t \in BagToSet(tasks)
    /\ \/ t.kind = "one" /\ t.pc = "returned"
       \/ t.kind = "batch" /\ t.pc = "done"
    /\ tasks' = Without(t)
    /\ UNCHANGED <<cachedEmojiIds, dirs, files, boot, budget, downloads, races,
                   sanitized, handled>>

(***************************************************************************)
(* initCache, native.ts:132-166                                            *)
(***************************************************************************)
NoMatch == <<>>

RECURSIVE TrailingDigits(_)
TrailingDigits(s) ==
    IF s # <<>> /\ s[Len(s)] \in Digits
    THEN 1 + TrailingDigits(SubSeq(s, 1, Len(s) - 1))
    ELSE 0

\* native.ts:154  file.match(/-(\d+)\.png$/): the captured digits, or NoMatch
MatchId(file) ==
    LET n == Len(file)
        stem == SubSeq(file, 1, n - 4)
        k == TrailingDigits(stem)
    IN  IF n >= 4 /\ SubSeq(file, n - 3, n) = DotPng
           /\ k >= 1 /\ Len(stem) > k /\ stem[Len(stem) - k] = "-"
        THEN SubSeq(stem, Len(stem) - k + 1, Len(stem))
        ELSE NoMatch

\* native.ts:150-159: the entries of one collection directory that match
MatchingFilesAll(fullGuildDir) ==
    {Append(fullGuildDir, f) : f \in readdirSync(fullGuildDir)}

MatchingFiles(fullGuildDir) ==
    {Append(fullGuildDir, f) : f \in {e \in readdirSync(fullGuildDir) : MatchId(e) # NoMatch}}

\* The orders in which readdirSync may list a set of names.
Orders(S) ==
    {o \in [1..Cardinality(S) -> S] : \A i, j \in 1..Cardinality(S) : o[i] = o[j] => i = j}

\* native.ts:148-163: the collections listed before readdirSync throws on
\* order[failAt]
ScannedSkipping(order, failAt) == {order[i] : i \in (1..Len(order)) \ {failAt}}

Scanned(order, failAt) == {order[i] : i \in 1..(failAt - 1)}

\* A scan that counts an id only the first time it adds it.
CountOfIds(matched) == Cardinality({MatchId(basename(f)) : f \in matched})

\* native.ts:155-158: count++ for every matching file
CountOf(matched) == Cardinality(matched)

\* native.ts:132-166, which has no await.  mkdirOk: whether mkdirSync of the
\* base directory succeeds; rootOk: whether readdirSync(baseDir) succeeds;
\* order, failAt: the listing order of the collections and the first whose
\* readdirSync throws.  The returned value stays in boot until it is delivered.
InitCache(customDir, mkdirOk, rootOk) ==
    /\ Quiet
    /\ LET baseDir == resolveBaseDir(customDir)
       IN  IF ~existsSync(baseDir) /\ ~mkdirOk
           THEN \* ensureDir throws outside the try block
                /\ boot' = [NoBoot EXCEPT !.st = "threw", !.base = baseDir]
                /\ UNCHANGED <<cachedEmojiIds, dirs>>
           ELSE /\ dirs' = mkdirRecursive(baseDir)
                /\ IF ~rootOk
                   THEN /\ boot' = [NoBoot EXCEPT !.st = "partial", !.base = baseDir]
                        /\ UNCHANGED cachedEmojiIds
                   ELSE \E order \in Orders(subdirectories(baseDir)) :
                        \E failAt \in 1..(Len(order) + 1) :
                          LET scanned == {Append(baseDir, g) : g \in Scanned(order, failAt)}
                              matched == UNION {MatchingFiles(d) : d \in scanned}
                          IN  /\ cachedEmojiIds' =
                                     cachedEmojiIds \cup {MatchId(basename(f)) : f \in matched}
                              /\ boot' = [st |-> IF failAt <= Len(order)
                                                 THEN "partial" ELSE "ok",
                                          base |-> baseDir,
                                          count |-> CountOf(matched),
                                          order |-> order,
                                          failAt |-> failAt]
    /\ UNCHANGED <<files, tasks, budget, downloads, races, sanitized, handled>>

\* The result of initCache has been delivered to the renderer (index.ts:85-89).
BootReply ==
    /\ boot.st # "none"
    /\ boot' = NoBoot
    /\ UNCHANGED <<cachedEmojiIds, dirs, files, tasks, budget, downloads, races,
                   sanitized, handled>>

(***************************************************************************)
(* Process start and exit                                                  *)
(***************************************************************************)
\* The disk when the program first starts: DATA_DIR/emotes holds a collection
\* A with Foo-123.png and weird.png, left by an earlier run or by hand; $HOME
\* is empty.
EmotesDir == resolveBaseDir(NoDir)
LegacyDirs == {join(EmotesDir, <<"A">>)}
LegacyFiles ==
    {join(join(EmotesDir, <<"A">>), Foo \o <<"-">> \o Id123 \o DotPng),
     join(join(EmotesDir, <<"A">>), <<"w", "e", "i", "r", "d">> \o DotPng)}
BaseDirs == Ancestors(PathOf(DATA_DIR)) \cup Ancestors(PathOf(HOME))

\* No sanitizeName call is under study; no message has been dispatched.
NoSanitize == [name |-> <<>>, pc |-> "idle", out |-> <<>>, again |-> <<>>]
NoMessage == [pc |-> "idle"]

\* The program's memory and disk at process start.
Started ==
    /\ cachedEmojiIds = {}
    /\ dirs = BaseDirs \cup Ancestors(EmotesDir) \cup LegacyDirs
    /\ files = [p \in LegacyFiles |-> Foreign]
    /\ tasks = EmptyBag
    /\ boot = NoBoot
    /\ budget = MaxRefs
    /\ downloads = [i \in Ids |-> 0]
    /\ races = [i \in Ids |-> 0]

Init ==
    /\ Started
    /\ sanitized = NoSanitize
    /\ handled = NoMessage

\* The process exits and a new one starts: memory is lost, the disk stays.
Restart ==
    /\ cachedEmojiIds' = {}
    /\ tasks' = EmptyBag
    /\ boot' = NoBoot
    /\ downloads' = [i \in Ids |-> 0]
    /\ races' = [i \in Ids |-> 0]
    /\ UNCHANGED <<dirs, files, budget, sanitized, handled>>

Next ==
    \/ \E ref \in Refs, d \in CustomDirs, s \in Sizes, ok \in BOOLEAN :
          CallCacheEmoji(ref, d, s, ok)
    \/ \E emojis \in SeqsUpTo(Refs, budget), d \in CustomDirs, s \in Sizes, ok \in BOOLEAN :
          CallCacheEmojis(emojis, d, s, ok)
    \/ \E t \in BagToSet(tasks), ok \in BOOLEAN : FetchResolved(t, ok)
    \/ \E t \in BagToSet(tasks) : FetchRejected(t)
    \/ \E t \in BagToSet(tasks), ok \in BOOLEAN : Resume(t, ok)
    \/ \E t \in BagToSet(tasks) : Reply(t)
    \/ \E d \in CustomDirs, mk \in BOOLEAN, rk \in BOOLEAN : InitCache(d, mk, rk)
    \/ BootReply
    \/ Restart

Spec == Init /\ [][Next]_vars

(***************************************************************************)
(* The cache operations of one process under fair scheduling, with a       *)
(* remote that may never answer the requests for one asset                 *)
(***************************************************************************)
\* The ids whose fetch may never return.
StuckIds == {Id123}

\* fetchBuffer settles (native.ts:85) for a request the remote answers.
FetchSettles ==
    \E t \in BagToSet(tasks) :
        /\ t.cur.id \notin StuckIds
        /\ \/ \E ok \in BOOLEAN : FetchResolved(t, ok)
           \/ FetchRejected(t)

\* The continuations of settled promises run.
Continues ==
    \/ \E t \in BagToSet(tasks), ok \in BOOLEAN : Resume(t, ok)
    \/ \E t \in BagToSet(tasks) : Reply(t)

LiveNext ==
    \/ \E ref \in Refs, d \in CustomDirs, s \in Sizes, ok \in BOOLEAN :
          CallCacheEmoji(ref, d, s, ok)
    \/ \E emojis \in SeqsUpTo(Refs, budget), d \in CustomDirs, s \in Sizes, ok \in BOOLEAN :
          CallCacheEmojis(emojis, d, s, ok)
    \/ \E t \in BagToSet(tasks), ok \in BOOLEAN : FetchResolved(t, ok)
    \/ \E t \in BagToSet(tasks) : FetchRejected(t)
    \/ \E t \in BagToSet(tasks), ok \in BOOLEAN : Resume(t, ok)
    \/ \E t \in BagToSet(tasks) : Reply(t)

LiveSpec ==
    /\ Init
    /\ [][LiveNext]_vars
    /\ WF_vars(FetchSettles)
    /\ WF_vars(Continues)

(***************************************************************************)
(* sanitizeName alone: one call on any short string, then one call on its  *)
(* result                                                                  *)
(***************************************************************************)
\* A period, a space, a letter, a path separator and a control character.
SanChars == {".", " ", "a", "/", "\t"}

cacheVars == <<cachedEmojiIds, dirs, files, tasks, boot, budget, downloads, races>>

SanInit ==
    /\ Started
    /\ handled = NoMessage
    /\ \E name \in SeqsUpTo(SanChars, MaxNameLen) :
          sanitized = [NoSanitize EXCEPT !.name = name, !.pc = "given"]

\* native.ts:24-29 applied to the string
Sanitize ==
    /\ sanitized.pc = "given"
    /\ sanitized' = [sanitized EXCEPT !.pc = "once", !.out = sanitizeName(sanitized.name)]
    /\ UNCHANGED <<cacheVars, handled>>

\* native.ts:24-29 applied to its own result
SanitizeAgain ==
    /\ sanitized.pc = "once"
    /\ sanitized' = [sanitized EXCEPT !.pc = "twice", !.again = sanitizeName(sanitized.out)]
    /\ UNCHANGED <<cacheVars, handled>>

SanNext ==
    \/ Sanitize
    \/ SanitizeAgain

SanSpec == SanInit /\ [][SanNext]_vars

(***************************************************************************)
(* The message handler, index.ts:19-55 and 92-121                          *)
(***************************************************************************)
Letters ==
    {"a", "b", "c", "d", "e", "f", "g", "h", "i", "j", "k", "l", "m",
     "n", "o", "p", "q", "r", "s", "t", "u", "v", "w", "x", "y", "z",
     "A", "B", "C", "D", "E", "F", "G", "H", "I", "J", "K", "L", "M",
     "N", "O", "P", "Q", "R", "S", "T", "U", "V", "W", "X", "Y", "Z"}

\* \w
WordChars == Letters \cup Digits \cup {"_"}

\* The character of s at position i, or "" past its end.
CharAt(s, i) == IF i \in 1..Len(s) THEN s[i] ELSE ""

\* The length of the longest run of characters of S in s from position i on.
RECURSIVE RunOf(_, _, _)
RunOf(s, i, S) == IF CharAt(s, i) \in S THEN 1 + RunOf(s, i + 1, S) ELSE 0

NoEmoji == [ok |-> FALSE, name |-> <<>>, id |-> <<>>, next |-> 0]

\* index.ts:19  /<a?:(\w+)(?:~\d+)?:(\d+)>/ tried at position i of content:
\* the captures and the position after the match.  Every quantifier is
\* greedy, and none can give a character back to what follows it.
MatchAt(content, i) ==
    LET colon == IF CharAt(content, i + 1) = "a" THEN i + 2 ELSE i + 1
        nameLen == RunOf(content, colon + 1, WordChars)
        tilde == colon + 1 + nameLen
        suffixLen == IF CharAt(content, tilde) = "~"
                     THEN RunOf(content, tilde + 1, Digits) ELSE 0
        colon2 == IF suffixLen > 0 THEN tilde + 1 + suffixLen ELSE tilde
        idLen == RunOf(content, colon2 + 1, Digits)
        close == colon2 + 1 + idLen
    IN  IF /\ CharAt(content, i) = "<"
           /\ CharAt(content, colon) = ":"
           /\ nameLen >= 1
           /\ CharAt(content, colon2) = ":"
           /\ idLen >= 1
           /\ CharAt(content, close) = ">"
        THEN [ok |-> TRUE,
              name |-> SubSeq(content, colon + 1, colon + nameLen),
              id |-> SubSeq(content, colon2 + 1, colon2 + idLen),
              next |-> close + 1]
        ELSE NoEmoji

\* A scan that pushes every match, seen or not.
RECURSIVE ExecLoopAll(_, _, _, _, _)
ExecLoopAll(content, guildName, lastIndex, seen, emojis) ==
    IF lastIndex > Len(content) THEN emojis
    ELSE LET match == MatchAt(content, lastIndex)
         IN  IF ~match.ok
             THEN ExecLoopAll(content, guildName, lastIndex + 1, seen, emojis)
             ELSE ExecLoopAll(content, guildName, match.next, seen \cup {match.id},
                              Append(emojis, [id |-> match.id, name |-> match.name,
                                              guildName |-> guildName]))

\* index.ts:44-52: the exec loop from lastIndex on
RECURSIVE ExecLoop(_, _, _, _, _)
ExecLoop(content, guildName, lastIndex, seen, emojis) ==
    IF lastIndex > Len(content) THEN emojis
    ELSE LET match == MatchAt(content, lastIndex)
         IN  IF ~match.ok
             THEN ExecLoop(content, guildName, lastIndex + 1, seen, emojis)
             ELSE IF match.id \in seen
             THEN ExecLoop(content, guildName, match.next, seen, emojis)
             ELSE ExecLoop(content, guildName, match.next, seen \cup {match.id},
                           Append(emojis, [id |-> match.id, name |-> match.name,
                                           guildName |-> guildName]))

\* index.ts:37-55
extractEmojisFromContent(content, guildName) ==
    ExecLoop(content, guildName, 1, {}, <<>>)

\* The null that resolveGuildName returns: no string of characters.
Null == <<"null">>

\* ChannelStore and GuildStore: a guild text channel, a direct-message
\* channel (guild_id null), a channel of a guild that is not in the store, a
\* channel of a guild whose name is empty; any other channel id is unknown.
ChannelIds == {"text", "dm", "orphan", "blank", "gone"}
NoChannel == [guild_id |-> "undefined"]
NoGuild == [name |-> Null]
getChannel(channelId) ==
    CASE channelId = "text" -> [guild_id |-> "g1"]
      [] channelId = "dm" -> [guild_id |-> "null"]
      [] channelId = "orphan" -> [guild_id |-> "g2"]
      [] channelId = "blank" -> [guild_id |-> "g3"]
      [] OTHER -> NoChannel
getGuild(guildId) ==
    CASE guildId = "g1" -> [name |-> MyServer]
      [] guildId = "g3" -> [name |-> <<>>]
      [] OTHER -> NoGuild

\* index.ts:28-34
resolveGuildName(channelId) ==
    LET channel == getChannel(channelId)
    IN  IF channel = NoChannel \/ channel.guild_id = "null" THEN Null
        ELSE getGuild(channel.guild_id).name

\* MessageType (DEFAULT, REPLY and one of the others) and message.state
MessageTypes == {"DEFAULT", "REPLY", "USER_JOIN"}
MessageStates == {"SENT", "SENDING"}

\* The pieces a message content is made of: emojis, one of them animated and
\* one with a ~N suffix, text, and the two halves of an emoji.
Pieces ==
    { <<"<", ":", "a", ":", "1", ">">>,
      <<"<", "a", ":", "b", ":", "1", ">">>,
      <<"<", ":", "c", "~", "1", ":", "2", ">">>,
      <<"h", "i", " ">>,
      <<"<", ":", "a", ":">>,
      <<"2", ">">> }

RECURSIVE Concat(_)
Concat(pieces) == IF pieces = <<>> THEN <<>> ELSE Head(pieces) \o Concat(Tail(pieces))

Contents == {Concat(ps) : ps \in SeqsUpTo(Pieces, MaxPieces)}

\* index.ts:93-113: the dispatch of one MESSAGE_CREATE event: the handler up
\* to its return or to the await of Native.cacheEmojis(emojis, dir, size).
MESSAGE_CREATE(optimistic, message, channelId, dir, size) ==
    /\ handled.pc = "idle"
    /\ LET guildName == resolveGuildName(channelId)
           emojis == IF message.content # <<>>
                     THEN extractEmojisFromContent(message.content, guildName)
                     ELSE <<>>
           event == [optimistic |-> optimistic, message |-> message,
                     channelId |-> channelId]
       IN  IF \/ optimistic
              \/ message.type # "DEFAULT" /\ message.type # "REPLY"
              \/ message.state = "SENDING"
              \/ guildName = Null \/ guildName = <<>>
              \/ Len(emojis) = 0
           THEN handled' = [pc |-> "returned", event |-> event, called |-> FALSE,
                            emojis |-> <<>>, dir |-> NoDir, size |-> 0]
           ELSE handled' = [pc |-> "awaiting", event |-> event, called |-> TRUE,
                            emojis |-> emojis, dir |-> dir, size |-> size]
    /\ UNCHANGED <<cacheVars, sanitized>>

\* index.ts:113-120: Native.cacheEmojis settles and the handler returns.
CacheEmojisSettled ==
    /\ handled.pc = "awaiting"
    /\ handled' = [handled EXCEPT !.pc = "returned"]
    /\ UNCHANGED <<cacheVars, sanitized>>

HandlerInit ==
    /\ Started
    /\ sanitized = NoSanitize
    /\ handled = NoMessage

\* One event is dispatched, with the settings of index.ts:111-112.
Dispatch ==
    /\ handled.pc = "idle"
    /\ \E optimistic \in BOOLEAN, type \in MessageTypes, state \in MessageStates,
          content \in Contents, channelId \in ChannelIds, d \in CustomDirs, s \in Sizes :
          MESSAGE_CREATE(optimistic,
                         [type |-> type, state |-> state, content |-> content],
                         channelId, d, s)

HandlerNext ==
    \/ Dispatch
    \/ CacheEmojisSettled

HandlerSpec == HandlerInit /\ [][HandlerNext]_vars

(***************************************************************************)
(* Properties                                                              *)
(***************************************************************************)
Running == BagToSet(tasks)

\* The task records this step has produced: the invocation that ran.
Stepped == {t \in BagToSet(tasks') : CopiesIn(t, tasks') > CopiesIn(t, tasks)}

\* name ends in -<digits>.png; the digits
IdSuffixes(name) ==
    LET n == Len(name)
    IN  IF n < 4 \/ SubSeq(name, n - 3, n) # DotPng THEN {}
        ELSE {SubSeq(name, i + 1, n - 4) :
                i \in {k \in 1..(n - 5) : /\ name[k] = "-"
                                          /\ \A j \in (k + 1)..(n - 4) : name[j] \in Digits}}

\* C1 (as claimed): within one process lifetime every asset id is fetched and
\* written at most once, whatever the interleaving of the invocations.
C1_AtMostOnce == \A id \in Ids : downloads[id] <= 1

\* C1 (amended): within one process lifetime an asset id is fetched and
\* written at most once, plus once for each cacheEmoji call that began its
\* fetch of the id while another fetch of the same id was in flight.
C1_AtMostOncePerRace == \A id \in Ids : downloads[id] <= 1 + races[id]

\* Two overlapping calls for one id have both fetched and written it.
C1_Witness == \E id \in Ids : downloads[id] = 2 /\ races[id] = 1

\* C2: a cacheEmoji call for an id that is in the tracker does no filesystem
\* operation and no fetch, leaves the tracker and the disk unchanged and
\* returns {cached: false, path: ""}, whatever name, collection and root it
\* is given.
C2_TrackedIsNoOp ==
    [][\A t \in Stepped :
          (t.pc = "returned" /\ t.wasTracked) =>
              /\ t.ops = <<>>
              /\ t.res = [cached |-> FALSE, path |-> <<>>]
              /\ cachedEmojiIds' = cachedEmojiIds
              /\ dirs' = dirs
              /\ files' = files]_vars

\* A call for a tracked id has returned, and no file is at its own path.
C2_Witness ==
    \E t \in Running : t.pc = "returned" /\ t.wasTracked /\ ~t.wasOnDisk

\* C3: a cacheEmoji call for an untracked id whose computed path exists does
\* no fetch and no write, leaves every file as it was, returns
\* {cached: false, path: <that path>} and leaves the id in the tracker.
C3_Healing ==
    [][\A t \in Stepped :
          (t.pc = "returned" /\ ~t.wasTracked /\ t.wasOnDisk) =>
              /\ t.ops = <<"existsSync">>
              /\ t.res.cached = FALSE
              /\ t.res.path # <<>>
              /\ t.res.path \in DOMAIN files
              /\ basename(t.res.path) = sanitizeName(t.cur.name) \o <<"-">> \o t.cur.id \o DotPng
              /\ files' = files
              /\ t.cur.id \notin cachedEmojiIds
              /\ t.cur.id \in cachedEmojiIds']_vars

\* A call has found the file of an untracked id and returned.
C3_Witness ==
    \E t \in Running :
        /\ t.pc = "returned" /\ ~t.wasTracked /\ t.wasOnDisk
        /\ t.cur.id \in cachedEmojiIds

\* C4: a cacheEmoji call whose mkdir, fetch or write fails returns
\* {cached: false, path: ""} and leaves the tracker as it was; and every
\* tracked id has a file on disk whose name ends in -<id>.png (it was
\* written, found, or read by the bootstrap).
C4_FailureDoesNotPoison ==
    /\ [](\A id \in cachedEmojiIds :
            \E p \in DOMAIN files : id \in IdSuffixes(basename(p)))
    /\ [][\A t \in Stepped :
            (t.pc = "returned" /\ ~t.wasTracked /\ ~t.wasOnDisk /\ ~t.res.cached) =>
                /\ t.res = [cached |-> FALSE, path |-> <<>>]
                /\ cachedEmojiIds' = cachedEmojiIds]_vars

\* A call has fetched, failed to write and returned: its id is not tracked.
C4_Witness ==
    \E t \in Running :
        /\ t.pc = "returned" /\ ~t.wasTracked /\ ~t.wasOnDisk /\ ~t.res.cached
        /\ t.ops[Len(t.ops)] = "writeFileSync"
        /\ t.cur.id \notin cachedEmojiIds

PogRef == [id |-> Id10, name |-> Pog, guildName |-> MyServer]
Pog10Png == <<"P", "o", "g", "-", "1", "0", ".", "p", "n", "g">>

\* root/sanitize(collectionName)/sanitize(displayName)-id.png
CachePath(ref, customDir) ==
    Collapse(resolveBaseDir(customDir)
                \o <<sanitizeName(ref.guildName),
                     sanitizeName(ref.name) \o <<"-">> \o ref.id \o DotPng>>, <<>>)

\* What C5 says of a call that returns cached = true, but for the example.
C5_Success(t) ==
    /\ ~t.wasTracked
    /\ ~t.wasOnDisk
    /\ t.ops \in {<<"existsSync", "existsSync", "fetchBuffer", "writeFileSync">>,
                  <<"existsSync", "existsSync", "mkdirSync", "fetchBuffer", "writeFileSync">>}
    /\ t.res.path = CachePath(t.cur, t.dir)
    /\ DOMAIN files' = DOMAIN files \cup {t.res.path}
    /\ \A p \in DOMAIN files \ {t.res.path} : files'[p] = files[p]
    /\ files'[t.res.path] = [id |-> t.cur.id, size |-> t.size]
    /\ t.cur.id \in cachedEmojiIds'

\* C5 (as claimed): a cacheEmoji call returns cached = true only when the id
\* was untracked, no file was at the path and mkdir, fetch and write
\* succeeded; it has then created exactly one file, at
\* root/sanitize(collection)/sanitize(name)-id.png, which for id "10", name
\* "Pog" and collection "My Server" is root/My_Server/Pog-10.png, tracks the
\* id and returns that path.
C5_AsClaimed ==
    [][\A t \in Stepped :
          (t.pc = "returned" /\ t.res.cached) =>
              /\ C5_Success(t)
              /\ t.res.path \notin DOMAIN files
              /\ (t.cur = PogRef /\ t.dir = TildeDir) =>
                     t.res.path = << <<"h">>, <<"c">>,
                                     <<"M", "y", "_", "S", "e", "r", "v", "e", "r">>,
                                     Pog10Png >>]_vars

\* C5 (amended): as claimed, except that sanitizeName keeps the space, so the
\* example's file is root/My Server/Pog-10.png, and that the write replaces
\* the file when a concurrent call has written the path since this call
\* looked: afterwards the file at the path holds the fetched bytes and no
\* other file has changed.
C5_SuccessPostcondition ==
    [][\A t \in Stepped :
          (t.pc = "returned" /\ t.res.cached) =>
              /\ C5_Success(t)
              /\ (t.cur = PogRef /\ t.dir = TildeDir) =>
                     t.res.path = << <<"h">>, <<"c">>,
                                     <<"M", "y", " ", "S", "e", "r", "v", "e", "r">>,
                                     Pog10Png >>]_vars

\* The example's call has returned cached = true.
C5_Witness ==
    \E t \in Running :
        /\ t.pc = "returned" /\ t.res.cached
        /\ t.cur = PogRef /\ t.dir = TildeDir
        /\ t.res.path \in DOMAIN files

BatchesDone == {t \in Running : t.kind = "batch" /\ t.pc = "done"}

\* C6 (as claimed): the count cacheEmojis returns is the number of fetch+write
\* operations the batch performed and the number of files it added to disk.
C6_AsClaimed ==
    \A t \in BatchesDone : t.newlyCached = t.writes /\ t.newlyCached = t.added

\* C6 (amended): the count cacheEmojis returns is the number of fetch+write
\* operations the batch performed; it is the number of files the batch added
\* to disk unless fetches of one id overlapped, when a write of the batch may
\* have replaced the file a concurrent call had just written.
C6_CountIsWrites ==
    \A t \in BatchesDone :
        /\ t.newlyCached = t.writes
        /\ t.added <= t.writes
        /\ t.added < t.writes => \E id \in Ids : races[id] > 0

\* A batch has written its first reference, skipped its last one, whose id
\* was tracked, and returned 1.
C6_Witness ==
    \E t \in BatchesDone :
        /\ t.newlyCached = 1 /\ t.writes = 1 /\ t.added = 1
        /\ t.wasTracked

\* The files of the immediate subdirectories of base whose name ends in
\* -<digits>.png.
Recognized(base) ==
    {p \in DOMAIN files : /\ Len(p) = Len(base) + 2
                          /\ SubSeq(p, 1, Len(base)) = base
                          /\ dirname(p) \in dirs
                          /\ IdSuffixes(basename(p)) # {}}

IdsOf(paths) == UNION {IdSuffixes(basename(p)) : p \in paths}

\* C7: an initCache in which nothing fails adds to the tracker the id of every
\* file of an immediate subdirectory of the root whose name ends in
\* -<digits>.png and nothing else, returns the number of those files, and
\* writes and downloads nothing.
C7_BootstrapResult ==
    [][(boot.st = "none" /\ boot'.st = "ok") =>
          /\ cachedEmojiIds' = cachedEmojiIds \cup IdsOf(Recognized(boot'.base))
          /\ boot'.count = Cardinality(Recognized(boot'.base))
          /\ files' = files
          /\ tasks' = tasks
          /\ downloads' = downloads]_vars

\* A fresh process has scanned Foo-123.png, weird.png and Pog-10.png.
C7_Witness ==
    /\ boot.st = "ok" /\ boot.count = 2
    /\ cachedEmojiIds = {Id10, Id123}
    /\ \A id \in Ids : downloads[id] = 0
    /\ \E p \in DOMAIN files : dirname(dirname(p)) = boot.base /\ IdSuffixes(basename(p)) = {}

\* The collections initCache listed before the listing that threw.
ListedBefore(b) == {Append(b.base, b.order[i]) : i \in 1..(b.failAt - 1)}

\* C8: when the listing of the root or of a collection throws, initCache
\* returns the count of the collections listed before it, the ids recognized
\* in them are in the tracker, and the collections after it are not scanned.
C8_PartialBootstrap ==
    [][(boot.st = "none" /\ boot'.st = "partial") =>
          LET rec == {p \in Recognized(boot'.base) : dirname(p) \in ListedBefore(boot')}
          IN  /\ boot'.failAt <= Len(boot'.order)
              /\ {boot'.order[i] : i \in 1..Len(boot'.order)} \subseteq
                     {basename(d) : d \in {e \in dirs' : dirname(e) = boot'.base /\ e # <<>>}}
              /\ cachedEmojiIds' = cachedEmojiIds \cup IdsOf(rec)
              /\ boot'.count = Cardinality(rec)
              /\ files' = files]_vars

\* The second listing threw: the first collection's id is tracked, and the id
\* of a file in a later collection is not.
C8_Witness ==
    /\ boot.st = "partial" /\ boot.count = 1 /\ boot.failAt = 2
    /\ \E p \in Recognized(boot.base) :
          /\ dirname(p) \notin ListedBefore(boot)
          /\ IdsOf({p}) \cap cachedEmojiIds = {}

\* C9: initCache never propagates a failure, the creation of a missing root
\* directory included.
C9_InitNeverThrows == boot.st # "threw"

\* The files cacheEmoji has written for a call that was given root base.
WrittenUnder(base) ==
    {p \in DOMAIN files :
        /\ files[p] # Foreign
        /\ \E r \in Refs, d \in CustomDirs :
              resolveBaseDir(d) = base /\ r.id = files[p].id /\ FilePathOf[r][d] = p}

\* C10: after a failure-free initCache on a root, the id of every file that a
\* successful cacheEmoji wrote for that root, in this or an earlier process,
\* is in the tracker.
C10_RestartRoundTrip ==
    boot.st = "ok" => \A p \in WrittenUnder(boot.base) : files[p].id \in cachedEmojiIds

\* The files on disk whose name ends in -<id>.png.
FilesOf(id) == {p \in DOMAIN files : id \in IdSuffixes(basename(p))}

\* The task records this step has replaced or removed.
Left == {t \in BagToSet(tasks) : CopiesIn(t, tasks) > CopiesIn(t, tasks')}

\* C11: when two concurrent batches have both passed the not-yet-cached checks
\* for one id, the write of the one that finishes second replaces the file at
\* the same path by an equivalent file, so that the disk holds no second file
\* for the id, and the id is tracked once both have finished.
C11_RaceIsBenign ==
    [][\A t \in Stepped :
          (/\ t.pc = "returned" /\ t.res.cached
           /\ races[t.cur.id] >= 1 /\ downloads[t.cur.id] >= 1) =>
              /\ files' = files
              /\ FilesOf(t.cur.id)' = FilesOf(t.cur.id)
              /\ t.cur.id \in cachedEmojiIds']_vars

\* C12: sanitizeName is idempotent: sanitizeName(sanitizeName(x)) =
\* sanitizeName(x) for every string x.
C12_Idempotent == sanitized.pc = "twice" => sanitized.again = sanitized.out

\* C13: the result of sanitizeName is a safe path segment: it is not empty
\* ("unknown" for the empty string), holds no path separator, control
\* character or reserved punctuation, does not end in a period and neither
\* begins nor ends with white space.
C13_SafeSegment ==
    sanitized.pc \in {"once", "twice"} =>
        LET out == sanitized.out
        IN  /\ out # <<>>
            /\ sanitized.name = <<>> => out = Unknown
            /\ \A i \in 1..Len(out) : out[i] \notin UNSAFE_FILENAME_CHARS
            /\ out[Len(out)] # "."
            /\ out[1] \notin WhiteSpace
            /\ out[Len(out)] \notin WhiteSpace

\* C14: within one cacheEmojis call the references are processed in the order
\* given and never overlap: while the cacheEmoji call for a reference is at
\* its fetch the batch does nothing but take that call's return, and once the
\* call has returned the batch starts the call for the next reference of the
\* sequence, or returns when none is left.
C14_Sequential ==
    [][\A t \in Left : \A u \in Stepped :
          (t.kind = "batch" /\ u.kind = "batch") =>
              /\ t.pc = "fetching" =>
                    /\ u.pc = "returned"
                    /\ u.cur = t.cur
                    /\ u.queue = t.queue
              /\ (t.pc = "returned" /\ t.queue # <<>>) =>
                    /\ u.cur = Head(t.queue)
                    /\ u.queue = Tail(t.queue)
              /\ (t.pc = "returned" /\ t.queue = <<>>) =>
                    /\ u.pc = "done"
                    /\ u.cur = t.cur]_vars

\* A batch has fetched and written its first reference and is now at the
\* fetch of its second and last one.
C14_Witness ==
    \E t \in Running :
        /\ t.kind = "batch" /\ t.pc = "fetching"
        /\ t.writes = 1 /\ t.newlyCached = 1 /\ t.queue = <<>>
        /\ t.cur.id \notin cachedEmojiIds

\* The references that name id under another collection than ref and whose
\* file, for root override d, the program has written.
CopiesElsewhere(ref, d) ==
    {r \in Refs : /\ r.id = ref.id
                  /\ r.guildName # ref.guildName
                  /\ FilePathOf[r][d] \in DOMAIN files
                  /\ files[FilePathOf[r][d]] # Foreign}

\* C15: deduplication is by id, whatever the collection: once an id requested
\* under one collection has been fetched and written in this process
\* lifetime, no cacheEmoji call for the id under another collection creates
\* a file.
C15_FirstCopyOnly ==
    [][\A t \in Stepped :
          (/\ t.pc = "returned"
           /\ downloads[t.cur.id] >= 1
           /\ CopiesElsewhere(t.cur, t.dir) # {}) =>
              /\ ~t.res.cached
              /\ FilesOf(t.cur.id)' \subseteq FilesOf(t.cur.id)]_vars

\* An invocation that waits at a fetch the remote may never answer.
Stalled(t) == t.pc = "fetching" /\ t.cur.id \in StuckIds

\* C16: a fetch that never returns stalls only the invocation that awaits it:
\* under fair scheduling, every invocation whose own fetches return or fail
\* runs to completion and returns, so that again and again the only
\* invocations in flight are those waiting at a fetch that does not return.
C16_OthersComplete == []<>(\A t \in Running : Stalled(t))

\* While one invocation waits at a fetch that has not returned, a batch has
\* fetched and written another asset, which is tracked, and has returned 1.
C16_Witness ==
    /\ \E t \in Running : Stalled(t)
    /\ \E t \in BatchesDone :
          /\ t.newlyCached = 1
          /\ t.cur.id \in cachedEmojiIds \ StuckIds

\* An initCache call that started with an empty tracker has returned.
Bootstrapped == boot.st = "none" /\ boot'.st \in {"ok", "partial"} /\ cachedEmojiIds = {}

\* The matching files of the collections initCache has listed.
Listed(b) == {p \in Recognized(b.base) : dirname(p) \in ListedBefore(b)}

\* C17 (as claimed): the count initCache returns, when it starts with an empty
\* tracker, is the number of ids in the tracker when it returns.
C17_AsClaimed == [][Bootstrapped => boot'.count = Cardinality(cachedEmojiIds')]_vars

\* C17 (amended): the count initCache returns is the number of matching files
\* it has read; the tracker then holds the ids of those files, which are at
\* most as many, and exactly as many when no two of the files carry the same
\* id.
C17_CountIsFiles ==
    [][Bootstrapped =>
          LET rec == Listed(boot')
          IN  /\ boot'.count = Cardinality(rec)
              /\ cachedEmojiIds' = IdsOf(rec)
              /\ Cardinality(cachedEmojiIds') <= boot'.count
              /\ (\A p, q \in rec : p # q => IdsOf({p}) \cap IdsOf({q}) = {}) =>
                     boot'.count = Cardinality(cachedEmojiIds')]_vars

\* A fresh process has scanned two files that carry the same id: it returns 2
\* and tracks one id.
C17_Witness ==
    /\ boot.st = "ok" /\ boot.count = 2
    /\ Cardinality(cachedEmojiIds) = 1
    /\ Cardinality(Listed(boot)) = 2
    /\ \A id \in Ids : downloads[id] = 0

\* C18: whenever cacheEmoji skips an asset because its id is tracked, a file
\* whose name ends in -<id>.png is in a collection directory of the root the
\* call was given, also when successive calls are given different roots.
C18_SoundForRoot ==
    [][\A t \in Stepped :
          (t.pc = "returned" /\ t.wasTracked) =>
              \E p \in Recognized(resolveBaseDir(t.dir)) :
                  t.cur.id \in IdSuffixes(basename(p))]_vars

\* C20: the tracker only grows during a process lifetime: every step of
\* initCache, cacheEmoji and cacheEmojis, successful or failed, leaves in the
\* tracker every id that was in it; only the exit of the process empties it.
C20_Monotone == [][Restart \/ cachedEmojiIds \subseteq cachedEmojiIds']_vars

\* An attempt has failed after its fetch began, for an id that a concurrent
\* call or the bootstrap has tracked meanwhile: the id is still tracked.
C20_Witness ==
    \E t \in Running :
        /\ t.pc = "returned" /\ ~t.wasTracked /\ t.res = FailedResult
        /\ t.ops # <<>> /\ t.ops[Len(t.ops)] \in {"fetchBuffer", "writeFileSync"}
        /\ t.cur.id \in cachedEmojiIds

\* Every character of s is in S, and there is at least one.
AllIn(s, S) == s # <<>> /\ \A k \in 1..Len(s) : s[k] \in S

\* The positions of character c in s.
Places(s, c) == {k \in 1..Len(s) : s[k] = c}

\* s up to its first "~", and what follows that "~".
BeforeTilde(s) ==
    IF Places(s, "~") = {} THEN s
    ELSE SubSeq(s, 1, (CHOOSE k \in Places(s, "~") : \A m \in Places(s, "~") : k <= m) - 1)
AfterTilde(s) == SubSeq(s, Len(BeforeTilde(s)) + 2, Len(s))

\* The custom emojis written in content, <:name:id>, <a:name:id> or either
\* with ~digits after the name: where each begins, its name and its id.
\* x = <<position of "<", of the first ":", of the second ":", of ">">>
EmojisIn(content) ==
    {[at |-> x[1],
      name |-> BeforeTilde(SubSeq(content, x[2] + 1, x[3] - 1)),
      id |-> SubSeq(content, x[3] + 1, x[4] - 1)] :
        x \in {y \in Places(content, "<") \X Places(content, ":")
                       \X Places(content, ":") \X Places(content, ">") :
                 /\ \/ y[2] = y[1] + 1
                    \/ y[2] = y[1] + 2 /\ content[y[1] + 1] = "a"
                 /\ y[2] < y[3]
                 /\ y[3] < y[4]
                 /\ LET named == SubSeq(content, y[2] + 1, y[3] - 1)
                    IN  /\ AllIn(BeforeTilde(named), WordChars)
                        /\ \/ Places(named, "~") = {}
                           \/ AllIn(AfterTilde(named), Digits)
                 /\ AllIn(SubSeq(content, y[3] + 1, y[4] - 1), Digits)}}

\* Where the first emoji with this id begins.
FirstAt(occ, id) ==
    CHOOSE p \in {o.at : o \in occ} :
        /\ \E o \in occ : o.at = p /\ o.id = id
        /\ \A o \in occ : o.id = id => p <= o.at

\* C19: MESSAGE_CREATE calls cacheEmojis only for a message that is not
\* optimistic, not still sending, of type DEFAULT or REPLY and in a channel
\* whose guild has a name; the batch it passes is not empty, carries that
\* name on every reference, and holds each id written in the message once,
\* with the name first written for it, in the order in which the ids first
\* occur.
C19_WellFormedBatches ==
    (handled.pc # "idle" /\ handled.called) =>
        LET e == handled.event
            batch == handled.emojis
            occ == EmojisIn(e.message.content)
            channel == getChannel(e.channelId)
        IN  /\ ~e.optimistic
            /\ e.message.state # "SENDING"
            /\ e.message.type \in {"DEFAULT", "REPLY"}
            /\ channel.guild_id \notin {"undefined", "null"}
            /\ getGuild(channel.guild_id).name \notin {Null, <<>>}
            /\ batch # <<>>
            /\ \A i \in 1..Len(batch) :
                  /\ batch[i].guildName = getGuild(channel.guild_id).name
                  /\ \E o \in occ : /\ o.id = batch[i].id
                                    /\ o.at = FirstAt(occ, batch[i].id)
                                    /\ o.name = batch[i].name
            /\ \A i, j \in 1..Len(batch) :
                  /\ i # j => batch[i].id # batch[j].id
                  /\ i < j => FirstAt(occ, batch[i].id) < FirstAt(occ, batch[j].id)
            /\ {o.id : o \in occ} = {batch[i].id : i \in 1..Len(batch)}

\* The handler has called cacheEmojis for a message in which three emojis
\* are written, the first and the last with the same id under two names: the
\* batch holds two references.
C19_Witness ==
    /\ handled.pc = "awaiting"
    /\ Len(handled.emojis) = 2
    /\ LET occ == EmojisIn(handled.event.message.content)
       IN  /\ Cardinality(occ) = 3
           /\ \E o, q \in occ :
                 /\ o.id = q.id /\ o.name # q.name
                 /\ \E r \in occ : r.id # o.id /\ o.at < r.at /\ r.at < q.at

====
